---- MODULE Spec2Model ----
(***************************************************************************)
(* Soulstice POC: the turn pipeline (agent/graph.py, agent/nodes.py), the   *)
(* episodic memory (memory/*.py) and the history formatter, as a state      *)
(* machine.  Python strings are TLA+ strings (Len, \o and SubSeq work on    *)
(* them); every other Python value is a record tagged by its type.          *)
(***************************************************************************)
EXTENDS Integers, Sequences, FiniteSets, TLC

VARIABLES
    pc,             \* the graph node about to run, "END", or "raised"
    state,          \* the AgentState threaded through the graph
    collection,     \* contents of the Chroma collection (sequence of records)
    _model,         \* embedding.py _model: "None" or "loaded"
    _collection,    \* vector_store.py _collection: "None", or the handle held
    clock,          \* datetime.now(): advances on every read
    nextId,         \* uuid.uuid4(): a fresh identifier on every call
    log,            \* history: one record per node run (entry, exit, calls)
    fmtCalls,       \* history: the last two format_conversation_history calls
    memCalls,       \* history: the direct calls made to the memory functions
    callers,        \* the threads inside get_chroma_collection, step by step
    chat            \* run_chat's locals: conversation_history, turns started

vars == <<pc, state, collection, _model, _collection, clock, nextId, log, fmtCalls,
          memCalls, callers, chat>>

(***************************************************************************)
(* Bounds of the model.                                                     *)
(***************************************************************************)
MaxHist == 2        \* longest conversation history given to the formatter
MaxBudget == 6      \* largest token budget given to the formatter
MaxSeed == 2        \* most records already in the collection when a turn starts
MaxMemCalls == 2    \* most direct calls to the memory functions in one run
MaxCallers == 2     \* threads calling get_chroma_collection at the same time
MaxTurns == 2       \* most turns run_chat starts in one session

(***************************************************************************)
(* Python values.                                                           *)
(***************************************************************************)
PyNone == [t |-> "None"]
PyStr(s) == [t |-> "str", s |-> s]
PyInt(i) == [t |-> "int", i |-> i]
PyList(l) == [t |-> "list", l |-> l]
PyDict(d) == [t |-> "dict", d |-> d]
Raise == [t |-> "raise"]        \* a call that ended in an exception

\* Python truth value (bool(v)).
Truthy(v) ==
    CASE v.t = "None" -> FALSE
      [] v.t = "str" -> v.s # ""
      [] v.t = "int" -> v.i # 0
      [] v.t = "list" -> Len(v.l) > 0
      [] v.t = "dict" -> DOMAIN v.d # {}
      [] OTHER -> TRUE

\* (v or "") for an Optional[str].
OrEmpty(v) == IF Truthy(v) THEN v.s ELSE ""

(***************************************************************************)
(* Python str methods.                                                      *)
(***************************************************************************)
UpperLetters == "ABCDEFGHIJKLMNOPQRSTUVWXYZ"
LowerLetters == "abcdefghijklmnopqrstuvwxyz"
Whitespace == {" ", "\n", "\t", "\r"}

Char(s, i) == SubSeq(s, i, i)

\* str.lower() and str.upper() on one character: the ASCII letters change
\* case, every other character is kept.
ToLower == [i \in 1..26 |-> Char(LowerLetters, i)]
ToUpper == [i \in 1..26 |-> Char(UpperLetters, i)]
UpperSet == {Char(UpperLetters, i) : i \in 1..26}
LowerSet == {Char(LowerLetters, i) : i \in 1..26}

LowerChar(c) ==
    IF c \in UpperSet THEN ToLower[CHOOSE i \in 1..26 : ToUpper[i] = c] ELSE c
UpperChar(c) ==
    IF c \in LowerSet THEN ToUpper[CHOOSE i \in 1..26 : ToLower[i] = c] ELSE c

RECURSIVE lower(_)
lower(s) == IF s = "" THEN "" ELSE LowerChar(Head(s)) \o lower(Tail(s))

RECURSIVE upper(_)
upper(s) == IF s = "" THEN "" ELSE UpperChar(Head(s)) \o upper(Tail(s))

capitalize(s) == IF s = "" THEN "" ELSE UpperChar(Head(s)) \o lower(Tail(s))

RECURSIVE lstrip(_)
lstrip(s) == IF s # "" /\ Head(s) \in Whitespace THEN lstrip(Tail(s)) ELSE s

RECURSIVE rstrip(_)
rstrip(s) ==
    IF s # "" /\ Char(s, Len(s)) \in Whitespace THEN rstrip(SubSeq(s, 1, Len(s) - 1)) ELSE s

strip(s) == rstrip(lstrip(s))

startswith(s, p) == Len(p) <= Len(s) /\ SubSeq(s, 1, Len(p)) = p
endswith(s, p) == Len(p) <= Len(s) /\ SubSeq(s, Len(s) - Len(p) + 1, Len(s)) = p
removeprefix(s, p) == IF startswith(s, p) THEN SubSeq(s, Len(p) + 1, Len(s)) ELSE s
removesuffix(s, p) == IF endswith(s, p) THEN SubSeq(s, 1, Len(s) - Len(p)) ELSE s

\* Python's (sub in s).
Contains(s, sub) ==
    \E i \in 1..(Len(s) - Len(sub) + 1) : SubSeq(s, i, i + Len(sub) - 1) = sub

RECURSIVE join(_, _)
join(sep, parts) ==
    IF parts = <<>> THEN ""
    ELSE IF Len(parts) = 1 THEN parts[1]
    ELSE parts[1] \o sep \o join(sep, Tail(parts))

RECURSIVE reversed(_)
reversed(l) == IF l = <<>> THEN <<>> ELSE reversed(Tail(l)) \o <<Head(l)>>

(***************************************************************************)
(* config.py                                                                *)
(***************************************************************************)
EMBEDDING_MODEL_NAME == "all-MiniLM-L6-v2"
MAX_CONVERSATION_HISTORY_TOKENS == 3000
N_RESULTS == 5      \* n_results passed by retrieve_memory_node
POTENTIAL_RISK_KEYWORDS ==
    <<"suicide", "kill myself", "hopeless", "can't go on", "self-harm", "abuse">>
ESCALATION_MESSAGE ==
    "\nI understand you're going through immense pain right now. As an AI, I'm not equipped to handle crises like this, but you don't have to face this alone. Please reach out to a crisis hotline or mental health professional immediately. Here are some resources: [Include relevant local/international hotline numbers/links]. They can offer the support you need.\n"

(***************************************************************************)
(* prompts/system_prompts.py                                                *)
(***************************************************************************)
RECURSIVE keyword_loop(_, _)
keyword_loop(text_lower, keywords) ==
    IF keywords = <<>> THEN FALSE
    ELSE IF Contains(text_lower, Head(keywords)) THEN TRUE
    ELSE keyword_loop(text_lower, Tail(keywords))

\* simple_keyword_check without the lower-casing of the text.
simple_keyword_check_case_sensitive(text, keywords) == keyword_loop(text, keywords)

simple_keyword_check(text, keywords) == keyword_loop(lower(text), keywords)

(***************************************************************************)
(* Rendering of values inside an f-string (str() and repr()).               *)
(***************************************************************************)
Digits == "0123456789"

RECURSIVE int_str(_)
int_str(i) ==
    IF i < 10 THEN Char(Digits, i + 1) ELSE int_str(i \div 10) \o Char(Digits, (i % 10) + 1)

RECURSIVE py_repr(_)
py_repr(v) ==
    CASE v.t = "str" -> "'" \o v.s \o "'"
      [] v.t = "int" -> int_str(v.i)
      [] v.t = "list" -> "[" \o join(", ", [i \in 1..Len(v.l) |-> py_repr(v.l[i])]) \o "]"
      [] OTHER -> "None"

py_str(v) == IF v.t = "str" THEN v.s ELSE py_repr(v)

\* dict.get(key, default)
dict_get(d, key, default) == IF key \in DOMAIN d.d THEN d.d[key] ELSE default

(***************************************************************************)
(* agent/nodes.py: token counting and history truncation.  tiktoken is an   *)
(* external library; its encoding is modelled as one token per              *)
(* whitespace-separated word.                                               *)
(***************************************************************************)
count_tokens(text) ==
    Cardinality({i \in 1..Len(text) :
        /\ Char(text, i) \notin Whitespace
        /\ (i = 1 \/ Char(text, i - 1) \in Whitespace)})

\* f"{turn['role'].capitalize()}: {turn['content']}": the content is rendered
\* with str(), so a content of None reads "None".
turn_text(turn) == capitalize(turn.role) \o ": " \o py_str(turn.content)

\* The loop with a turn that does not fit skipped (continue) instead of ending
\* the walk (break).
RECURSIVE history_loop_skipping(_, _, _, _, _)
history_loop_skipping(history, max_tokens, i, acc, current_tokens) ==
    IF i = 0 THEN acc
    ELSE LET text == turn_text(history[i])
             turn_tokens == count_tokens(text)
         IN IF current_tokens + turn_tokens <= max_tokens
            THEN history_loop_skipping(history, max_tokens, i - 1, Append(acc, text),
                                       current_tokens + turn_tokens)
            ELSE history_loop_skipping(history, max_tokens, i - 1, acc, current_tokens)

\* The loop of format_conversation_history over reversed(history): i is the
\* index of the turn being visited, acc is formatted_history.
RECURSIVE history_loop(_, _, _, _, _)
history_loop(history, max_tokens, i, acc, current_tokens) ==
    IF i = 0 THEN acc
    ELSE LET text == turn_text(history[i])
             turn_tokens == count_tokens(text)
         IN IF current_tokens + turn_tokens <= max_tokens
            THEN history_loop(history, max_tokens, i - 1, Append(acc, text),
                              current_tokens + turn_tokens)
            ELSE acc    \* break

\* formatted_turns with the reversal left out: newest turn first.
formatted_turns_unreversed(history, max_tokens) ==
    history_loop(history, max_tokens, Len(history), <<>>, 0)

\* formatted_history after the loop, reversed back to chronological order.
formatted_turns(history, max_tokens) ==
    reversed(history_loop(history, max_tokens, Len(history), <<>>, 0))

format_conversation_history(history, max_tokens) ==
    join("\n", formatted_turns(history, max_tokens))

(***************************************************************************)
(* The process environment the memory code reads and writes:                *)
(*   m      embedding._model        ("None" | "loaded")                     *)
(*   c      vector_store._collection ("None" | "ready")                     *)
(*   coll   the records held by the Chroma collection                       *)
(*   clock  the next value of datetime.now()                                *)
(*   id     the next value of uuid.uuid4()                                  *)
(* Every operator below returns the environment it leaves behind (env),     *)
(* the backend calls it made (calls) and its return value (ret), which is   *)
(* Raise when the Python function ends in an exception.                     *)
(***************************************************************************)
Env == [m |-> _model, c |-> _collection, coll |-> collection, clock |-> clock, id |-> nextId]

\* The vector SentenceTransformer.encode(text).tolist() yields: an opaque,
\* non-empty list of floats determined by the text.
Vec(text) == [t |-> "vec", of |-> text]

(***************************************************************************)
(* memory/embedding.py                                                      *)
(***************************************************************************)
\* load_ok: whether SentenceTransformer(EMBEDDING_MODEL_NAME) succeeds.
get_embedding_model(env, load_ok) ==
    IF env.m # "None" THEN [ret |-> PyNone, env |-> env, calls |-> <<>>]
    ELSE IF load_ok
         THEN [ret |-> PyNone, env |-> [env EXCEPT !.m = "loaded"],
               calls |-> <<[api |-> "SentenceTransformer", out |-> PyNone]>>]
         ELSE [ret |-> Raise, env |-> env,
               calls |-> <<[api |-> "SentenceTransformer", out |-> Raise]>>]

\* get_embedding without the try around model.encode: a failure propagates.
get_embedding_encode_unguarded(env, text, load_ok, enc_ok) ==
    LET gm == get_embedding_model(env, load_ok) IN
    IF gm.ret = Raise THEN gm
    ELSE IF strip(text) = "" THEN [ret |-> PyNone, env |-> gm.env, calls |-> gm.calls]
    ELSE IF enc_ok
         THEN [ret |-> Vec(text), env |-> gm.env,
               calls |-> gm.calls \o <<[api |-> "encode", text |-> text, out |-> Vec(text)]>>]
         ELSE [ret |-> Raise, env |-> gm.env,
               calls |-> gm.calls \o <<[api |-> "encode", text |-> text, out |-> Raise]>>]

\* enc_ok: whether model.encode(text) succeeds.
get_embedding(env, text, load_ok, enc_ok) ==
    LET gm == get_embedding_model(env, load_ok) IN
    IF gm.ret = Raise THEN gm
    ELSE IF strip(text) = "" THEN [ret |-> PyNone, env |-> gm.env, calls |-> gm.calls]
    ELSE IF enc_ok
         THEN [ret |-> Vec(text), env |-> gm.env,
               calls |-> gm.calls \o <<[api |-> "encode", text |-> text, out |-> Vec(text)]>>]
         ELSE [ret |-> PyNone, env |-> gm.env,
               calls |-> gm.calls \o <<[api |-> "encode", text |-> text, out |-> Raise]>>]

(***************************************************************************)
(* memory/vector_store.py                                                   *)
(***************************************************************************)
\* init_ok: whether PersistentClient / get_or_create_collection succeed.
get_chroma_collection(env, init_ok) ==
    IF env.c # "None" THEN [ret |-> PyNone, env |-> env, calls |-> <<>>]
    ELSE IF init_ok
         THEN [ret |-> PyNone, env |-> [env EXCEPT !.c = "ready"],
               calls |-> <<[api |-> "PersistentClient", out |-> PyNone]>>]
         ELSE [ret |-> Raise, env |-> env,
               calls |-> <<[api |-> "PersistentClient", out |-> Raise]>>]

\* add_memory as an upsert keyed by the record's role (id 1 for user, 2 for
\* ai): a record already stored under the id is replaced.
add_memory_upsert_by_role(env, embedding, document, metadata, init_ok, add_ok) ==
    LET gc == get_chroma_collection(env, init_ok) IN
    IF gc.ret = Raise THEN gc
    ELSE IF embedding = PyNone THEN [ret |-> PyNone, env |-> gc.env, calls |-> gc.calls]
    ELSE LET memory_id == IF metadata.role = "user" THEN 1 ELSE 2
             rec == [id |-> memory_id, embedding |-> embedding,
                     document |-> document, metadata |-> metadata]
             held == {i \in DOMAIN gc.env.coll : gc.env.coll[i].id = memory_id}
             upserted == IF held = {} THEN Append(gc.env.coll, rec)
                         ELSE [i \in DOMAIN gc.env.coll |->
                                  IF i \in held THEN rec ELSE gc.env.coll[i]]
         IN IF add_ok
            THEN [ret |-> PyNone, env |-> [gc.env EXCEPT !.coll = upserted],
                  calls |-> gc.calls \o
                      <<[api |-> "collection.add", id |-> memory_id, out |-> PyNone]>>]
            ELSE [ret |-> PyNone, env |-> gc.env,
                  calls |-> gc.calls \o
                      <<[api |-> "collection.add", id |-> memory_id, out |-> Raise]>>]

\* add_ok: whether collection.add succeeds.  memory_id is never passed by the
\* callers, so a uuid4 is drawn whenever the embedding is not None.
add_memory(env, embedding, document, metadata, init_ok, add_ok) ==
    LET gc == get_chroma_collection(env, init_ok) IN
    IF gc.ret = Raise THEN gc
    ELSE IF embedding = PyNone THEN [ret |-> PyNone, env |-> gc.env, calls |-> gc.calls]
    ELSE LET memory_id == gc.env.id
             rec == [id |-> memory_id, embedding |-> embedding,
                     document |-> document, metadata |-> metadata]
             e1 == [gc.env EXCEPT !.id = @ + 1]
         IN IF add_ok
            THEN [ret |-> PyNone, env |-> [e1 EXCEPT !.coll = Append(@, rec)],
                  calls |-> gc.calls \o
                      <<[api |-> "collection.add", id |-> memory_id, out |-> PyNone]>>]
            ELSE [ret |-> PyNone, env |-> e1,      \* logged, not raised
                  calls |-> gc.calls \o
                      <<[api |-> "collection.add", id |-> memory_id, out |-> Raise]>>]

EmptyResults == [documents |-> <<>>, metadatas |-> <<>>, distances |-> <<>>]

\* collection.query(where=...): a record is a candidate when its metadata has
\* every value the filter names; None filters nothing.
where_matches(metadata, where_filter) ==
    \/ where_filter = PyNone
    \/ \A k \in DOMAIN where_filter.d : metadata[k] = where_filter.d[k].s

\* The result lists cut down to the records the filter lets through.
filter_results(results, where_filter) ==
    LET keep == SelectSeq([i \in 1..Len(results.metadatas) |-> i],
                          LAMBDA i : where_matches(results.metadatas[i], where_filter))
    IN [documents |-> [j \in 1..Len(keep) |-> results.documents[keep[j]]],
        metadatas |-> [j \in 1..Len(keep) |-> results.metadatas[keep[j]]],
        distances |-> [j \in 1..Len(keep) |-> results.distances[keep[j]]]]

\* q_out: what collection.query does: Raise, or the result lists it ranks
\* nearest before the filter is applied.
query_memories(env, query_embedding, where_filter, q_out, init_ok) ==
    LET gc == get_chroma_collection(env, init_ok) IN
    IF gc.ret = Raise THEN gc
    ELSE IF query_embedding = PyNone
         THEN [ret |-> EmptyResults, env |-> gc.env, calls |-> gc.calls]
    ELSE IF q_out = Raise
         THEN [ret |-> EmptyResults, env |-> gc.env,
               calls |-> gc.calls \o <<[api |-> "collection.query", out |-> Raise,
                                         where |-> where_filter]>>]
         ELSE LET results == filter_results(q_out, where_filter)
              IN [ret |-> results, env |-> gc.env,
                  calls |-> gc.calls \o <<[api |-> "collection.query", out |-> PyNone,
                                            where |-> where_filter, results |-> results]>>]

(***************************************************************************)
(* memory/memory_manager.py                                                 *)
(***************************************************************************)
Metadata(role, timestamp, session_id) ==
    [type |-> "episodic", role |-> role, timestamp |-> timestamp,
     session_id |-> session_id, embedding_model |-> EMBEDDING_MODEL_NAME]

\* One side of add_interaction: embed the document and, if the embedding is
\* truthy, hand it to add_memory.
add_side(env, doc, metadata, o_load, o_encode, o_init, o_add) ==
    LET ge == get_embedding(env, doc, o_load, o_encode) IN
    IF ge.ret = Raise THEN ge
    ELSE IF Truthy(ge.ret)
         THEN LET am == add_memory(ge.env, ge.ret, doc, metadata, o_init, o_add)
              IN [ret |-> am.ret, env |-> am.env, calls |-> ge.calls \o am.calls]
         ELSE [ret |-> PyNone, env |-> ge.env, calls |-> ge.calls]

\* add_interaction with the clock read again for the AI side.
add_interaction_two_timestamps(env, user_input, ai_response, session_id, o) ==
    LET e0 == [env EXCEPT !.clock = @ + 2]
        mark == <<[api |-> "add_interaction", session_id |-> session_id]>>
        user_doc == "User said: " \o user_input
        us == add_side(e0, user_doc, Metadata("user", env.clock, session_id),
                       o.load, o.encode_user, o.init, o.add_user)
    IN IF us.ret = Raise
       THEN [ret |-> Raise, env |-> us.env, calls |-> mark \o us.calls]
       ELSE LET ai_doc == "AI responded: " \o ai_response
                as == add_side(us.env, ai_doc, Metadata("ai", env.clock + 1, session_id),
                               o.load, o.encode_ai, o.init, o.add_ai)
            IN [ret |-> as.ret, env |-> as.env, calls |-> mark \o us.calls \o as.calls]

\* o: the outcomes of the backend calls (load, init, encode_user, add_user,
\* encode_ai, add_ai).
add_interaction(env, user_input, ai_response, session_id, o) ==
    LET timestamp == env.clock
        e0 == [env EXCEPT !.clock = @ + 1]
        mark == <<[api |-> "add_interaction", session_id |-> session_id]>>
        user_doc == "User said: " \o user_input
        us == add_side(e0, user_doc, Metadata("user", timestamp, session_id),
                       o.load, o.encode_user, o.init, o.add_user)
    IN IF us.ret = Raise
       THEN [ret |-> Raise, env |-> us.env, calls |-> mark \o us.calls]
       ELSE LET ai_doc == "AI responded: " \o ai_response
                as == add_side(us.env, ai_doc, Metadata("ai", timestamp, session_id),
                               o.load, o.encode_ai, o.init, o.add_ai)
            IN [ret |-> as.ret, env |-> as.env, calls |-> mark \o us.calls \o as.calls]

\* The sort left out, trusting the order the store returned.
sort_by_distance_omitted(l) == l

\* list.sort(key=distance): a stable insertion sort.
RECURSIVE insert_sorted(_, _)
insert_sorted(sorted, x) ==
    IF sorted = <<>> THEN <<x>>
    ELSE IF Head(sorted).distance <= x.distance
         THEN <<Head(sorted)>> \o insert_sorted(Tail(sorted), x)
         ELSE <<x>> \o sorted

RECURSIVE sort_by_distance(_)
sort_by_distance(l) ==
    IF l = <<>> THEN <<>>
    ELSE insert_sorted(sort_by_distance(SubSeq(l, 1, Len(l) - 1)), l[Len(l)])

Min(a, b) == IF a <= b THEN a ELSE b

\* zip(docs, metadatas, distances) into the list of retrieved records.
zip_results(results) ==
    [i \in 1..Min(Len(results.documents), Min(Len(results.metadatas), Len(results.distances)))
        |-> [document |-> results.documents[i], metadata |-> results.metadatas[i],
             distance |-> results.distances[i]]]

\* retrieve_relevant_memories with the session filter of the source's
\* commented-out example switched on.
retrieve_relevant_memories_session_scoped(env, query_text, session_id, o) ==
    LET ge == get_embedding(env, query_text, o.load, o.encode) IN
    IF ge.ret = Raise THEN ge
    ELSE IF ge.ret = PyNone THEN [ret |-> PyList(<<>>), env |-> ge.env, calls |-> ge.calls]
    ELSE LET where_filter == PyDict([k \in {"session_id"} |-> PyStr(session_id)])
             qm == query_memories(ge.env, ge.ret, where_filter, o.query, o.init) IN
         IF qm.ret = Raise
         THEN [ret |-> PyList(<<>>), env |-> qm.env, calls |-> ge.calls \o qm.calls]
         ELSE [ret |-> PyList(sort_by_distance(zip_results(qm.ret))), env |-> qm.env,
               calls |-> ge.calls \o qm.calls]

\* o: the outcomes of the backend calls (load, encode, init, query).  The
\* session_id parameter is accepted and unused (where_filter = None).
retrieve_relevant_memories(env, query_text, session_id, o) ==
    LET ge == get_embedding(env, query_text, o.load, o.encode) IN
    IF ge.ret = Raise THEN ge
    ELSE IF ge.ret = PyNone THEN [ret |-> PyList(<<>>), env |-> ge.env, calls |-> ge.calls]
    ELSE LET where_filter == PyNone
             qm == query_memories(ge.env, ge.ret, where_filter, o.query, o.init) IN
         IF qm.ret = Raise      \* caught by the except clause: return []
         THEN [ret |-> PyList(<<>>), env |-> qm.env, calls |-> ge.calls \o qm.calls]
         ELSE [ret |-> PyList(sort_by_distance(zip_results(qm.ret))), env |-> qm.env,
               calls |-> ge.calls \o qm.calls]

(***************************************************************************)
(* json.loads on the texts the analysis backend is modelled to return (the  *)
(* json module is a library: a table of the parses it produces).  Any other *)
(* text is a JSONDecodeError.                                               *)
(***************************************************************************)
\* The Markdown code fence: three backquotes in the source.  A backquote cannot
\* be written in a TLA+ string, so each is written as a tilde.
FENCE == "~~~"

JSON_FULL ==
    "{\"dominant_emotion\": \"sadness\", \"emotion_intensity\": 6, \"key_topics\": [\"work\"], \"implicit_needs\": [\"validation\"], \"sentiment\": \"negative\"}"
JSON_PARTIAL == "{\"dominant_emotion\": \"sadness\"}"
JSON_LIST == "[\"sadness\"]"
JSON_NULL == "null"

AnalysisFields ==
    {"dominant_emotion", "emotion_intensity", "key_topics", "implicit_needs", "sentiment"}

FullAnalysis ==
    PyDict([k \in AnalysisFields |->
        CASE k = "dominant_emotion" -> PyStr("sadness")
          [] k = "emotion_intensity" -> PyInt(6)
          [] k = "key_topics" -> PyList(<<PyStr("work")>>)
          [] k = "implicit_needs" -> PyList(<<PyStr("validation")>>)
          [] k = "sentiment" -> PyStr("negative")])

PartialAnalysis == PyDict([k \in {"dominant_emotion"} |-> PyStr("sadness")])

ErrorAnalysis(msg) == PyDict([k \in {"error"} |-> PyStr(msg)])

json_loads(text) ==
    CASE text = JSON_FULL -> FullAnalysis
      [] text = JSON_PARTIAL -> PartialAnalysis
      [] text = JSON_LIST -> PyList(<<PyStr("sadness")>>)
      [] text = JSON_NULL -> PyNone
      [] OTHER -> Raise

(***************************************************************************)
(* agent/nodes.py: the four graph nodes.  Each takes the AgentState, the    *)
(* environment and the outcomes of the backend calls it may make, and       *)
(* returns [state, env, calls, raised]; raised means the node let an        *)
(* exception escape, and then the state is as the exception left it.        *)
(***************************************************************************)
\* One invocation of a prompt | llm | StrOutputParser chain: the prompt used, the
\* conversation_history text put in it, and what came back.
LlmCall(prompt, history_str, out) ==
    [api |-> "llm", prompt |-> prompt, history |-> history_str, out |-> out]

\* process_input_node lower-casing the input it was given, in place.
process_input_node_lowering_input(st, env, o_analysis) ==
    LET calls == <<LlmCall("INPUT_ANALYSIS_PROMPT",
                    format_conversation_history(st.conversation_history,
                        MAX_CONVERSATION_HISTORY_TOKENS \div 2),
                    o_analysis)>>
        st0 == [st EXCEPT !.user_input = lower(st.user_input)]
    IN IF o_analysis = Raise
       THEN [state |-> [st0 EXCEPT !.error = PyStr("An error occurred during input analysis."),
                                   !.input_analysis = ErrorAnalysis("LLM call failed")],
             env |-> env, calls |-> calls, raised |-> FALSE]
       ELSE LET analysis_json == json_loads(
                    strip(removesuffix(removeprefix(strip(o_analysis.s), FENCE \o "json"), FENCE)))
            IN IF analysis_json = Raise
               THEN [state |-> [st0 EXCEPT !.error = PyStr("Failed to analyze input."),
                                           !.input_analysis = ErrorAnalysis("JSON parsing failed")],
                     env |-> env, calls |-> calls, raised |-> FALSE]
               ELSE [state |-> [st0 EXCEPT !.input_analysis = analysis_json],
                     env |-> env, calls |-> calls, raised |-> FALSE]

\* o_analysis: Raise, or PyStr(text) returned by the analysis chain.
process_input_node(st, env, o_analysis) ==
    LET calls == <<LlmCall("INPUT_ANALYSIS_PROMPT",
                    format_conversation_history(st.conversation_history,
                        MAX_CONVERSATION_HISTORY_TOKENS \div 2),
                    o_analysis)>> IN
    IF o_analysis = Raise
    THEN [state |-> [st EXCEPT !.error = PyStr("An error occurred during input analysis."),
                               !.input_analysis = ErrorAnalysis("LLM call failed")],
          env |-> env, calls |-> calls, raised |-> FALSE]
    ELSE LET analysis_str ==
                 strip(removesuffix(removeprefix(strip(o_analysis.s), FENCE \o "json"), FENCE))
             analysis_json == json_loads(analysis_str)
         IN IF analysis_json = Raise
            THEN [state |-> [st EXCEPT !.error = PyStr("Failed to analyze input."),
                                       !.input_analysis = ErrorAnalysis("JSON parsing failed")],
                  env |-> env, calls |-> calls, raised |-> FALSE]
            ELSE [state |-> [st EXCEPT !.input_analysis = analysis_json],
                  env |-> env, calls |-> calls, raised |-> FALSE]

\* The guard of retrieve_memory_node (line 95): "skip", "go", or "raise" when
\* .get is applied to an analysis that is not a dict (AttributeError).
retrieve_guard(st) ==
    IF Truthy(st.error) THEN "skip"
    ELSE IF ~Truthy(st.input_analysis) THEN "skip"
    ELSE IF st.input_analysis.t # "dict" THEN "raise"
    ELSE IF Truthy(dict_get(st.input_analysis, "error", PyNone)) THEN "skip"
    ELSE "go"

\* The fallback in the wording of the source's commented-out "Option 1".
fallback_query_option_1(analysis, user_input) ==
    "Topics: " \o py_str(dict_get(analysis, "key_topics", PyList(<<>>)))
        \o ", Emotion: " \o py_str(dict_get(analysis, "dominant_emotion", PyStr("neutral")))
        \o ". User said: " \o user_input

fallback_query(analysis, user_input) ==
    "Topics: " \o py_str(dict_get(analysis, "key_topics", PyList(<<>>)))
        \o ", Emotion: " \o py_str(dict_get(analysis, "dominant_emotion", PyStr("neutral")))
        \o ". User input: " \o user_input

\* o: outcomes query (Raise or PyStr), load, encode, init, squery.
retrieve_memory_node(st, env, o) ==
    LET guard == retrieve_guard(st) IN
    IF guard = "raise"
    THEN [state |-> st, env |-> env, calls |-> <<>>, raised |-> TRUE]
    ELSE IF guard = "skip"
    THEN [state |-> [st EXCEPT !.retrieved_memories = PyList(<<>>)],
          env |-> env, calls |-> <<>>, raised |-> FALSE]
    ELSE LET analysis == st.input_analysis
             query_text == IF o.query = Raise
                           THEN fallback_query(analysis, st.user_input)
                           ELSE o.query.s
             rr == retrieve_relevant_memories(env, query_text, st.session_id,
                       [load |-> o.load, encode |-> o.encode, init |-> o.init,
                        query |-> o.squery])
             calls == <<LlmCall("MEMORY_RETRIEVAL_QUERY_PROMPT",
                          format_conversation_history(st.conversation_history,
                              MAX_CONVERSATION_HISTORY_TOKENS \div 4),
                          o.query)>> \o rr.calls
         IN IF rr.ret = Raise
            THEN [state |-> [st EXCEPT !.error = PyStr("Failed to retrieve memories."),
                                       !.retrieved_memories = PyList(<<>>)],
                  env |-> rr.env, calls |-> calls, raised |-> FALSE]
            ELSE [state |-> [st EXCEPT !.retrieved_memories = rr.ret],
                  env |-> rr.env, calls |-> calls, raised |-> FALSE]

\* ethical_check_node without the early return on a previous error.
ethical_check_node_unconditional(st, env, o_classifier) ==
    LET keyword == simple_keyword_check(st.user_input, POTENTIAL_RISK_KEYWORDS)
        calls == <<LlmCall("ETHICAL_RISK_ASSESSMENT_PROMPT",
                     format_conversation_history(st.conversation_history,
                         MAX_CONVERSATION_HISTORY_TOKENS \div 4),
                     o_classifier)>>
    IN IF o_classifier = Raise
       THEN [state |-> [st EXCEPT
                   !.error = PyStr(OrEmpty(st.error) \o " Ethical check LLM failed."),
                   !.needs_escalation = keyword],
             env |-> env, calls |-> calls, raised |-> FALSE]
       ELSE [state |-> [st EXCEPT
                   !.needs_escalation = (keyword \/ upper(strip(o_classifier.s)) = "YES")],
             env |-> env, calls |-> calls, raised |-> FALSE]

\* o_classifier: Raise, or PyStr(text) returned by the risk-assessment chain.
ethical_check_node(st, env, o_classifier) ==
    IF Truthy(st.error)
    THEN [state |-> [st EXCEPT !.needs_escalation = FALSE],
          env |-> env, calls |-> <<>>, raised |-> FALSE]
    ELSE LET keyword == simple_keyword_check(st.user_input, POTENTIAL_RISK_KEYWORDS)
             calls == <<LlmCall("ETHICAL_RISK_ASSESSMENT_PROMPT",
                          format_conversation_history(st.conversation_history,
                              MAX_CONVERSATION_HISTORY_TOKENS \div 4),
                          o_classifier)>>
         IN IF o_classifier = Raise
            THEN [state |-> [st EXCEPT
                        !.error = PyStr(OrEmpty(st.error) \o " Ethical check LLM failed."),
                        !.needs_escalation = keyword],
                  env |-> env, calls |-> calls, raised |-> FALSE]
            ELSE LET assessment == upper(strip(o_classifier.s))
                 IN [state |-> [st EXCEPT
                            !.needs_escalation = (keyword \/ assessment = "YES")],
                     env |-> env, calls |-> calls, raised |-> FALSE]

ERROR_RESPONSE == "I'm sorry, I encountered an error. Could you please rephrase?"
TROUBLE_RESPONSE ==
    "I'm having trouble formulating a response right now. Could you try saying that differently?"

\* The first branch of generate_response_node: an error is already set.
generate_error_branch(st, env, o) ==
    [state |-> [st EXCEPT !.generated_response = PyStr(ERROR_RESPONSE)],
     env |-> env, calls |-> <<>>, raised |-> FALSE]

\* The escalation branch as it would be with the turn saved to memory (the
\* call the source leaves commented out).
generate_escalation_branch_persisting(st, env, o) ==
    LET ai == add_interaction(env, st.user_input, ESCALATION_MESSAGE, st.session_id, o)
    IN [state |-> [st EXCEPT !.generated_response = PyStr(ESCALATION_MESSAGE)],
        env |-> ai.env, calls |-> ai.calls, raised |-> ai.ret = Raise]

\* The second branch: the fixed escalation message, nothing else.
generate_escalation_branch(st, env, o) ==
    [state |-> [st EXCEPT !.generated_response = PyStr(ESCALATION_MESSAGE)],
     env |-> env, calls |-> <<>>, raised |-> FALSE]

\* The third branch with the save moved after the try: the fallback text is
\* saved too when the generation call fails.
generate_normal_branch_saving_fallback(st, env, o) ==
    LET gen == <<LlmCall("RESPONSE_GENERATION_PROMPT",
                        format_conversation_history(st.conversation_history,
                            MAX_CONVERSATION_HISTORY_TOKENS),
                        o.generation)>>
        response == IF o.generation = Raise THEN TROUBLE_RESPONSE ELSE o.generation.s
        st1 == [st EXCEPT
                  !.error = IF o.generation = Raise
                            THEN PyStr(OrEmpty(st.error) \o " Failed to generate response.")
                            ELSE @,
                  !.generated_response = PyStr(response)]
        ai == add_interaction(env, st.user_input, response, st.session_id, o)
    IN IF ai.ret = Raise
       THEN [state |-> [st1 EXCEPT !.error = PyStr(OrEmpty(st1.error)
                             \o " Failed to save interaction to memory.")],
             env |-> ai.env, calls |-> gen \o ai.calls, raised |-> FALSE]
       ELSE [state |-> st1, env |-> ai.env, calls |-> gen \o ai.calls, raised |-> FALSE]

\* The third branch: call the generation chain and, when it answers, save the
\* interaction.
generate_normal_branch(st, env, o) ==
    LET gen == <<LlmCall("RESPONSE_GENERATION_PROMPT",
                        format_conversation_history(st.conversation_history,
                            MAX_CONVERSATION_HISTORY_TOKENS),
                        o.generation)>> IN
    IF o.generation = Raise
    THEN [state |-> [st EXCEPT
                !.error = PyStr(OrEmpty(st.error) \o " Failed to generate response."),
                !.generated_response = PyStr(TROUBLE_RESPONSE)],
          env |-> env, calls |-> gen, raised |-> FALSE]
    ELSE LET response == o.generation.s
             st1 == [st EXCEPT !.generated_response = PyStr(response)]
             ai == add_interaction(env, st.user_input, response, st.session_id, o)
         IN IF ai.ret = Raise
            THEN [state |-> [st1 EXCEPT !.error = PyStr(OrEmpty(st1.error)
                                  \o " Failed to save interaction to memory.")],
                  env |-> ai.env, calls |-> gen \o ai.calls, raised |-> FALSE]
            ELSE [state |-> st1, env |-> ai.env, calls |-> gen \o ai.calls,
                  raised |-> FALSE]

\* generate_response_node with the escalation test placed before the error test.
generate_response_node_escalation_first(st, env, o) ==
    IF st.needs_escalation THEN generate_escalation_branch(st, env, o)
    ELSE IF Truthy(st.error) THEN generate_error_branch(st, env, o)
    ELSE generate_normal_branch(st, env, o)

\* o: outcomes generation (Raise or PyStr), load, init, encode_user, add_user,
\* encode_ai, add_ai.
generate_response_node(st, env, o) ==
    IF Truthy(st.error) THEN generate_error_branch(st, env, o)
    ELSE IF st.needs_escalation THEN generate_escalation_branch(st, env, o)
    ELSE generate_normal_branch(st, env, o)

\* should_continue with an escalated turn routed straight to the end.
should_continue_escalation_ends(st) ==
    IF Truthy(st.error) THEN "end"
    ELSE IF st.needs_escalation THEN "end"
    ELSE "generate_response"

\* The conditional edge after ethical_check.
should_continue(st) ==
    IF Truthy(st.error) THEN "end"
    ELSE IF st.needs_escalation THEN "generate_response"
    ELSE "generate_response"

(***************************************************************************)
(* agent/graph.py: the compiled graph's edges.                              *)
(***************************************************************************)
Nodes == {"process_input", "retrieve_memory", "ethical_check", "generate_response"}

next_node(node, st) ==
    CASE node = "process_input" -> "retrieve_memory"
      [] node = "retrieve_memory" -> "ethical_check"
      [] node = "ethical_check" ->
            IF should_continue(st) = "generate_response" THEN "generate_response" ELSE "END"
      [] node = "generate_response" -> "END"

(***************************************************************************)
(* What the backends may answer.                                            *)
(***************************************************************************)
AnalysisOutcomes ==
    {Raise,
     PyStr(FENCE \o "json\n" \o JSON_FULL \o "\n" \o FENCE),
     PyStr(" " \o JSON_PARTIAL \o "\n"),
     PyStr(JSON_LIST),
     PyStr(JSON_NULL),
     PyStr("The user seems sad.")}

QueryGenOutcomes == {Raise, PyStr("times the user felt sad about work"), PyStr(" ")}

ClassifierOutcomes ==
    {Raise, PyStr("YES"), PyStr(" yes\n"), PyStr("NO"), PyStr("YES, escalate.")}

GenerationOutcomes ==
    {Raise, PyStr("Here's my question back to you: what made today hard?"),
     PyStr("That sounds tough.")}

DistanceValues == {2, 7}    \* distances, in tenths

\* What collection.query may return for a collection holding coll: the
\* min(N_RESULTS, count) records it ranks nearest, in any order, at any distances.
QueryResults(coll) ==
    LET k == Min(N_RESULTS, Len(coll))
        picks == {p \in [1..k -> 1..Len(coll)] : \A i, j \in 1..k : p[i] = p[j] => i = j}
    IN {[documents |-> [i \in 1..k |-> coll[p[i]].document],
         metadatas |-> [i \in 1..k |-> coll[p[i]].metadata],
         distances |-> d] : p \in picks, d \in [1..k -> DistanceValues]}

QueryOutcomes(coll) == {Raise} \cup QueryResults(coll)

\* Loading the embedding model and opening the collection are attempted only
\* while the singleton is still None: only then is there an outcome to choose.
LoadOutcomes == IF _model = "None" THEN BOOLEAN ELSE {TRUE}
InitOutcomes == IF _collection = "None" THEN BOOLEAN ELSE {TRUE}

\* The outcomes of the two encode and the two collection.add calls of
\* add_interaction, which is reached only when the generation call returned.
PersistOutcomes(og) ==
    IF og = Raise
    THEN {[encode_user |-> TRUE, add_user |-> TRUE, encode_ai |-> TRUE, add_ai |-> TRUE]}
    ELSE [encode_user : BOOLEAN, add_user : BOOLEAN, encode_ai : BOOLEAN, add_ai : BOOLEAN]

(***************************************************************************)
(* main.py: the state run_chat builds for one turn.                         *)
(***************************************************************************)
InitialState(session_id, user_input, conversation_history) ==
    [session_id |-> session_id,
     user_input |-> user_input,
     conversation_history |-> conversation_history,
     input_analysis |-> PyNone,
     retrieved_memories |-> PyNone,
     response_strategy |-> PyNone,
     generated_response |-> PyNone,
     needs_escalation |-> FALSE,
     error |-> PyNone]

SESSION == "session-A"

UserInputs ==
    {"I feel hopeless and can't go on", "Feeling HOPELESS today", "had a rough day at work"}

Histories ==
    {<<>>, <<[role |-> "user", content |-> PyStr("hi")],
             [role |-> "ai", content |-> PyStr("hello there")]>>}

\* Records an earlier session left in the persistent collection.
SeedRecord(i) ==
    LET doc == IF i % 2 = 1 THEN "User said: work was rough" ELSE "AI responded: tell me more"
    IN [id |-> i, embedding |-> Vec(doc), document |-> doc,
        metadata |-> Metadata(IF i % 2 = 1 THEN "user" ELSE "ai", (i + 1) \div 2, "session-0")]

SeedStore(n) == [i \in 1..n |-> SeedRecord(i)]

\* run_chat before its loop: an empty history, no turn started.
NoChat == [conversation_history |-> <<>>, turns |-> 0]

\* The threads that may call get_chroma_collection; at first none is inside.
Threads == 1..MaxCallers

\* pc, ret, tmp: each thread's position, returned handle and unstored object;
\* client: vector_store.py _client; clients, collections: handles created.
NoCallers ==
    [pc |-> [t \in Threads |-> "idle"], ret |-> [t \in Threads |-> "None"],
     tmp |-> [t \in Threads |-> "None"],
     client |-> "None", clients |-> 0, collections |-> 0]

(***************************************************************************)
(* The state machine: one invocation of the compiled graph.                 *)
(***************************************************************************)
Step(node, r) ==
    /\ state' = r.state
    /\ collection' = r.env.coll
    /\ _model' = r.env.m
    /\ _collection' = r.env.c
    /\ clock' = r.env.clock
    /\ nextId' = r.env.id
    /\ log' = Append(log, [node |-> node, entry |-> state, exit |-> r.state,
                           calls |-> r.calls, raised |-> r.raised,
                           coll_before |-> collection, coll_after |-> r.env.coll])
    /\ pc' = IF r.raised THEN "raised" ELSE next_node(node, r.state)
    /\ UNCHANGED <<fmtCalls, memCalls, callers, chat>>

ProcessInput ==
    /\ pc = "process_input"
    /\ \E oa \in AnalysisOutcomes :
          Step("process_input", process_input_node(state, Env, oa))

RetrieveMemory ==
    /\ pc = "retrieve_memory"
    /\ \E oq \in QueryGenOutcomes, ol \in LoadOutcomes, oe \in BOOLEAN, oi \in InitOutcomes,
          os \in QueryOutcomes(collection) :
          Step("retrieve_memory",
               retrieve_memory_node(state, Env,
                   [query |-> oq, load |-> ol, encode |-> oe, init |-> oi, squery |-> os]))

EthicalCheck ==
    /\ pc = "ethical_check"
    /\ \E oc \in ClassifierOutcomes :
          Step("ethical_check", ethical_check_node(state, Env, oc))

GenerateResponse ==
    /\ pc = "generate_response"
    /\ \E og \in GenerationOutcomes, ol \in LoadOutcomes, oi \in InitOutcomes :
       \E op \in PersistOutcomes(og) :
          Step("generate_response",
               generate_response_node(state, Env,
                   [generation |-> og, load |-> ol, init |-> oi,
                    encode_user |-> op.encode_user, add_user |-> op.add_user,
                    encode_ai |-> op.encode_ai, add_ai |-> op.add_ai]))

Next == ProcessInput \/ RetrieveMemory \/ EthicalCheck \/ GenerateResponse

\* A turn as run_chat starts it: run_chat has already obtained the collection
\* handle; the embedding model is loaded by the first turn that needs it.
Init ==
    /\ pc = "process_input"
    /\ \E input \in UserInputs, hist \in Histories :
          state = InitialState(SESSION, input, hist)
    /\ \E n \in 0..MaxSeed :
          /\ collection = SeedStore(n)
          /\ nextId = n + 1
          /\ clock = n + 1
    /\ _model \in {"None", "loaded"}
    /\ _collection = "ready"
    /\ log = <<>>
    /\ fmtCalls = <<>>
    /\ memCalls = <<>>
    /\ callers = NoCallers
    /\ chat = NoChat

Spec == Init /\ [][Next]_vars

(***************************************************************************)
(* A node called on its own: any node of the graph entered with any         *)
(* AgentState a caller may hand it (error already set or not, escalation    *)
(* flagged or not), in a process whose singletons may not exist yet.  The   *)
(* graph then runs on from that node.                                       *)
(***************************************************************************)
StageStates ==
    {[InitialState(SESSION, input, <<>>) EXCEPT
          !.error = e, !.needs_escalation = ne, !.input_analysis = ia] :
        input \in UserInputs, e \in {PyNone, PyStr("A")}, ne \in BOOLEAN,
        ia \in {PyNone, FullAnalysis, ErrorAnalysis("LLM call failed")}}

StageInit ==
    /\ pc \in Nodes
    /\ state \in StageStates
    /\ collection = <<>>
    /\ nextId = 1
    /\ clock = 1
    /\ _model \in {"None", "loaded"}
    /\ _collection \in {"None", "ready"}
    /\ log = <<>>
    /\ fmtCalls = <<>>
    /\ memCalls = <<>>
    /\ callers = NoCallers
    /\ chat = NoChat

StageSpec == StageInit /\ [][Next]_vars

(***************************************************************************)
(* format_conversation_history called on its own: one history, formatted    *)
(* under one budget after another; fmtCalls keeps the last two calls.       *)
(***************************************************************************)
FmtTurns ==
    {[role |-> "user", content |-> PyStr("hi")],
     [role |-> "ai", content |-> PyStr("how are you today")],
     [role |-> "user", content |-> PyStr("not so good")]}

FmtHistories == UNION {[1..n -> FmtTurns] : n \in 0..MaxHist}

FormatCall ==
    \E h \in FmtHistories, b \in 0..MaxBudget :
        /\ fmtCalls # <<>> => h = fmtCalls[Len(fmtCalls)].history
        /\ fmtCalls' =
              (IF fmtCalls = <<>> THEN <<>> ELSE <<fmtCalls[Len(fmtCalls)]>>)
              \o <<[history |-> h, max_tokens |-> b,
                    turns |-> formatted_turns(h, b),
                    out |-> format_conversation_history(h, b)]>>
        /\ UNCHANGED <<pc, state, collection, _model, _collection, clock, nextId, log,
                       memCalls, callers, chat>>

FmtInit ==
    /\ pc = "END"
    /\ state = InitialState(SESSION, "had a rough day at work", <<>>)
    /\ collection = <<>>
    /\ nextId = 1
    /\ clock = 1
    /\ _model = "None"
    /\ _collection = "None"
    /\ log = <<>>
    /\ fmtCalls = <<>>
    /\ memCalls = <<>>
    /\ callers = NoCallers
    /\ chat = NoChat

FmtNext == FormatCall

FmtSpec == FmtInit /\ [][FmtNext]_vars

(***************************************************************************)
(* The memory functions called on their own (memory/embedding.py,           *)
(* MemoryManager.add_interaction), in a process whose singletons may or may *)
(* not exist yet; memCalls keeps one record per call.                       *)
(***************************************************************************)
MemTexts == {"", " \n", "times the user felt sad about work"}

MemStep(fn, args, r) ==
    /\ memCalls' = Append(memCalls,
          [fn |-> fn, args |-> args, ret |-> r.ret, calls |-> r.calls,
           model_before |-> _model, coll_before |-> collection,
           coll_after |-> r.env.coll])
    /\ collection' = r.env.coll
    /\ _model' = r.env.m
    /\ _collection' = r.env.c
    /\ clock' = r.env.clock
    /\ nextId' = r.env.id
    /\ UNCHANGED <<pc, state, log, fmtCalls, callers, chat>>

GetEmbedding ==
    /\ Len(memCalls) < MaxMemCalls
    /\ \E text \in MemTexts, ol \in LoadOutcomes, oe \in BOOLEAN :
          MemStep("get_embedding", [text |-> text], get_embedding(Env, text, ol, oe))

AddInteraction ==
    /\ Len(memCalls) < MaxMemCalls
    /\ \E ol \in LoadOutcomes, oi \in InitOutcomes, op \in PersistOutcomes(PyNone) :
          LET user_input == "had a rough day at work"
              ai_response == "That sounds tough."
          IN MemStep("add_interaction",
                [user_input |-> user_input, ai_response |-> ai_response,
                 session_id |-> SESSION],
                add_interaction(Env, user_input, ai_response, SESSION,
                    [load |-> ol, init |-> oi,
                     encode_user |-> op.encode_user, add_user |-> op.add_user,
                     encode_ai |-> op.encode_ai, add_ai |-> op.add_ai]))

MemInit ==
    /\ pc = "END"
    /\ state = InitialState(SESSION, "had a rough day at work", <<>>)
    /\ \E n \in 0..MaxSeed :
          /\ collection = SeedStore(n)
          /\ nextId = n + 1
          /\ clock = n + 1
    /\ _model \in {"None", "loaded"}
    /\ _collection \in {"None", "ready"}
    /\ log = <<>>
    /\ fmtCalls = <<>>
    /\ memCalls = <<>>
    /\ callers = NoCallers
    /\ chat = NoChat

MemNext == GetEmbedding \/ AddInteraction

MemSpec == MemInit /\ [][MemNext]_vars

(***************************************************************************)
(* retrieve_relevant_memories called on its own by turns of two sessions,   *)
(* over a collection holding what an earlier turn of session-A saved; the   *)
(* query text and the store's answer to it stay the same from call to call  *)
(* and memCalls keeps the last two calls.                                   *)
(***************************************************************************)
Sessions == {"session-A", "session-B"}

RetrTexts == {" ", "times the user felt sad about work"}

\* The collection after n records were saved by turns of session-A.
SessionStore(n) == [i \in 1..n |-> [SeedRecord(i) EXCEPT !.metadata.session_id = SESSION]]

RetrieveRelevantMemories ==
    \E query_text \in RetrTexts, session_id \in Sessions, ol \in LoadOutcomes,
       oe \in BOOLEAN, oi \in InitOutcomes, os \in QueryOutcomes(collection) :
        LET o == [load |-> ol, encode |-> oe, init |-> oi, query |-> os]
            r == retrieve_relevant_memories(Env, query_text, session_id, o)
        IN /\ memCalls # <<>> =>
                 \* the same question over the same collection: the store
                 \* answers it as it did the last time
                 /\ query_text = memCalls[Len(memCalls)].args.query_text
                 /\ os = memCalls[Len(memCalls)].outcomes.query
           /\ memCalls' =
                 (IF memCalls = <<>> THEN <<>> ELSE <<memCalls[Len(memCalls)]>>)
                 \o <<[fn |-> "retrieve_relevant_memories",
                       args |-> [query_text |-> query_text, session_id |-> session_id],
                       outcomes |-> o, ret |-> r.ret, calls |-> r.calls,
                       model_before |-> _model, coll_before |-> collection,
                       coll_after |-> r.env.coll]>>
           /\ collection' = r.env.coll
           /\ _model' = r.env.m
           /\ _collection' = r.env.c
           /\ clock' = r.env.clock
           /\ nextId' = r.env.id
           /\ UNCHANGED <<pc, state, log, fmtCalls, callers, chat>>

RetrInit ==
    /\ pc = "END"
    /\ state = InitialState(SESSION, "had a rough day at work", <<>>)
    /\ \E n \in 0..MaxSeed :
          /\ collection = SessionStore(n)
          /\ nextId = n + 1
          /\ clock = n + 1
    /\ _model \in {"None", "loaded"}
    /\ _collection \in {"None", "ready"}
    /\ log = <<>>
    /\ fmtCalls = <<>>
    /\ memCalls = <<>>
    /\ callers = NoCallers
    /\ chat = NoChat

RetrNext == RetrieveRelevantMemories

RetrSpec == RetrInit /\ [][RetrNext]_vars

(***************************************************************************)
(* get_chroma_collection entered by several threads at once                 *)
(* (memory/vector_store.py).  The function takes no lock, so a thread may   *)
(* be preempted between any two of its statements:                          *)
(*   check             if _collection is None                               *)
(*   client            chromadb.PersistentClient(...)                       *)
(*   store_client      _client = <that client>                              *)
(*   collection        _client.get_or_create_collection(...)                *)
(*   store_collection  _collection = <that collection>                      *)
(*   return            return _collection                                   *)
(* A handle is named by the order of its creation; callers.tmp holds the    *)
(* object a thread has created and not yet stored.                          *)
(***************************************************************************)
ClientHandle(n) == "client#" \o int_str(n)
CollectionHandle(n) == "collection#" \o int_str(n)

\* What a step inside get_chroma_collection leaves alone.
TurnUnchanged ==
    UNCHANGED <<pc, state, collection, _model, clock, nextId, log, fmtCalls, memCalls,
                chat>>

Goto(t, to) == [callers EXCEPT !.pc[t] = to]

Call(t) ==
    /\ callers.pc[t] = "idle"
    /\ callers' = Goto(t, "check")
    /\ UNCHANGED _collection
    /\ TurnUnchanged

Check(t) ==
    /\ callers.pc[t] = "check"
    /\ callers' = Goto(t, IF _collection = "None" THEN "client" ELSE "return")
    /\ UNCHANGED _collection
    /\ TurnUnchanged

MakeClient(t) ==
    /\ callers.pc[t] = "client"
    /\ \E ok \in BOOLEAN :
          callers' = IF ok
                     THEN [callers EXCEPT !.pc[t] = "store_client",
                                          !.clients = @ + 1,
                                          !.tmp[t] = ClientHandle(callers.clients + 1)]
                     ELSE Goto(t, "raised")
    /\ UNCHANGED _collection
    /\ TurnUnchanged

StoreClient(t) ==
    /\ callers.pc[t] = "store_client"
    /\ callers' = [callers EXCEPT !.pc[t] = "collection", !.client = callers.tmp[t],
                                  !.tmp[t] = "None"]
    /\ UNCHANGED _collection
    /\ TurnUnchanged

MakeCollection(t) ==
    /\ callers.pc[t] = "collection"
    /\ \E ok \in BOOLEAN :
          callers' = IF ok
                     THEN [callers EXCEPT !.pc[t] = "store_collection",
                                          !.collections = @ + 1,
                                          !.tmp[t] = CollectionHandle(callers.collections + 1)]
                     ELSE Goto(t, "raised")
    /\ UNCHANGED _collection
    /\ TurnUnchanged

StoreCollection(t) ==
    /\ callers.pc[t] = "store_collection"
    /\ _collection' = callers.tmp[t]
    /\ callers' = [callers EXCEPT !.pc[t] = "return", !.tmp[t] = "None"]
    /\ TurnUnchanged

Return(t) ==
    /\ callers.pc[t] = "return"
    /\ callers' = [callers EXCEPT !.pc[t] = "done", !.ret[t] = _collection]
    /\ UNCHANGED _collection
    /\ TurnUnchanged

CallerInit ==
    /\ pc = "END"
    /\ state = InitialState(SESSION, "had a rough day at work", <<>>)
    /\ collection = <<>>
    /\ nextId = 1
    /\ clock = 1
    /\ _model = "None"
    /\ _collection = "None"
    /\ log = <<>>
    /\ fmtCalls = <<>>
    /\ memCalls = <<>>
    /\ callers = NoCallers
    /\ chat = NoChat

CallerNext ==
    \E t \in Threads :
        \/ Call(t)
        \/ Check(t)
        \/ MakeClient(t)
        \/ StoreClient(t)
        \/ MakeCollection(t)
        \/ StoreCollection(t)
        \/ Return(t)

CallerSpec == CallerInit /\ [][CallerNext]_vars

(***************************************************************************)
(* main.py run_chat: the chat loop.  Each turn reads a line, builds the     *)
(* AgentState with a copy of the history, invokes the graph and then        *)
(* decides whether to extend the history.  The collection was obtained      *)
(* before the loop; it starts empty and keeps what the turns save.          *)
(***************************************************************************)
ChatInputs == {"had a rough day at work", "  ", "Quit"}

\* Python's  sub in s.
str_contains(s, sub) ==
    \E i \in 1..(Len(s) - Len(sub) + 1) : SubSeq(s, i, i + Len(sub) - 1) = sub

\* final_state.get('generated_response', default): the key is always present
\* in the state run_chat built, so the stored value is what comes back.
ai_response_of(final_state) == final_state.generated_response

\* The condition under which run_chat extends conversation_history.
history_updated(final_state) ==
    \/ ~Truthy(final_state.error)
    \/ ~str_contains(IF Truthy(final_state.error) THEN final_state.error.s ELSE "",
                     "Failed to generate response")

\* input(): quit/exit ends the loop, a blank line asks again, anything else
\* starts a turn on a copy of the history.
ReadInput ==
    /\ pc = "prompt"
    /\ chat.turns < MaxTurns
    /\ \E user_input \in ChatInputs :
          IF lower(user_input) \in {"quit", "exit"}
          THEN /\ pc' = "exited"
               /\ UNCHANGED <<state, log, chat>>
          ELSE IF strip(user_input) = ""
          THEN UNCHANGED <<pc, state, log, chat>>
          ELSE /\ pc' = "process_input"
               /\ state' = InitialState(SESSION, user_input, chat.conversation_history)
               /\ log' = <<>>
               /\ chat' = [chat EXCEPT !.turns = @ + 1]
    /\ UNCHANGED <<collection, _model, _collection, clock, nextId, fmtCalls, memCalls,
                   callers>>

\* After soulstice_app.invoke returned: print the reply, update the history.
FinishTurn ==
    /\ pc = "END"
    /\ pc' = "prompt"
    /\ chat' = IF history_updated(state)
               THEN [chat EXCEPT !.conversation_history =
                        @ \o <<[role |-> "user", content |-> PyStr(state.user_input)],
                               [role |-> "ai", content |-> ai_response_of(state)]>>]
               ELSE chat
    /\ UNCHANGED <<state, collection, _model, _collection, clock, nextId, log, fmtCalls,
                   memCalls, callers>>

\* except Exception: the invocation raised; the loop is left.
Break ==
    /\ pc = "raised"
    /\ pc' = "exited"
    /\ UNCHANGED <<state, collection, _model, _collection, clock, nextId, log, fmtCalls,
                   memCalls, callers, chat>>

ChatInit ==
    /\ pc = "prompt"
    /\ state = InitialState(SESSION, "", <<>>)
    /\ collection = <<>>
    /\ nextId = 1
    /\ clock = 1
    /\ _model = "None"
    /\ _collection = "ready"
    /\ log = <<>>
    /\ fmtCalls = <<>>
    /\ memCalls = <<>>
    /\ callers = NoCallers
    /\ chat = NoChat

ChatNext ==
    \/ ReadInput
    \/ ProcessInput
    \/ RetrieveMemory
    \/ EthicalCheck
    \/ GenerateResponse
    \/ FinishTurn
    \/ Break

ChatSpec == ChatInit /\ [][ChatNext]_vars

(***************************************************************************)
(* Reading the history of a turn.                                           *)
(***************************************************************************)
Runs(node) == {i \in DOMAIN log : log[i].node = node}

\* The calls of run i made through api.
CallsOf(i, api) == {j \in DOMAIN log[i].calls : log[i].calls[j].api = api}

\* The LLM calls of run i that used prompt.
LlmCallsOf(i, prompt) ==
    {j \in CallsOf(i, "llm") : log[i].calls[j].prompt = prompt}

\* The turn made no add_interaction call at all.
NoPersistenceInTurn == \A i \in DOMAIN log : CallsOf(i, "add_interaction") = {}

\* No backend call of the turn failed.
EveryCallSucceeded ==
    \A i \in DOMAIN log : \A j \in DOMAIN log[i].calls :
        log[i].calls[j].api # "add_interaction" => log[i].calls[j].out # Raise

\* Case-insensitive substring match of the text against the risk keywords.
LexicalHit(text) ==
    LET folded == lower(text) IN
    \E k \in 1..Len(POTENTIAL_RISK_KEYWORDS) :
        \E i \in 1..Len(folded) :
            /\ i + Len(POTENTIAL_RISK_KEYWORDS[k]) - 1 <= Len(folded)
            /\ SubSeq(folded, i, i + Len(POTENTIAL_RISK_KEYWORDS[k]) - 1)
                  = lower(POTENTIAL_RISK_KEYWORDS[k])

\* The user inputs of the model that match a risk keyword (evaluated once).
LexicalInputs == {u \in UserInputs : LexicalHit(u)}

\* The classifier said YES (after trimming, in any case); a failure is a no.
SemanticHit(out) == out # Raise /\ upper(strip(out.s)) = "YES"

IsSuffix(a, b) == Len(a) <= Len(b) /\ SubSeq(b, Len(b) - Len(a) + 1, Len(b)) = a

(***************************************************************************)
(* C1: every turn ends with generated_response set to a string, and when an *)
(* error was set by analysis, retrieval or safety the response is the fixed *)
(* apology.  The graph routes an error after ethical_check to END without    *)
(* running generate_response, so the response stays None.                   *)
(***************************************************************************)
C1_ResponseAlwaysSet ==
    pc = "END" =>
        /\ state.generated_response.t = "str"
        /\ (\E i \in Runs("ethical_check") : Truthy(log[i].exit.error))
              => state.generated_response = PyStr(ERROR_RESPONSE)

(***************************************************************************)
(* C2: generate_response entered with needs_escalation and no error returns *)
(* the escalation message verbatim, calls no backend and saves nothing.     *)
(***************************************************************************)
C2_EscalationShortCircuits ==
    \A i \in Runs("generate_response") :
        (log[i].entry.needs_escalation /\ ~Truthy(log[i].entry.error)) =>
            /\ log[i].exit.generated_response = PyStr(ESCALATION_MESSAGE)
            /\ CallsOf(i, "llm") = {}
            /\ CallsOf(i, "add_interaction") = {}
            /\ log[i].calls = <<>>
            /\ log[i].coll_after = log[i].coll_before
            /\ log[i].coll_after = log[1].coll_before

C2_Witness ==
    /\ pc = "END"
    /\ \E i \in Runs("generate_response") :
          /\ log[i].entry.needs_escalation
          /\ ~Truthy(log[i].entry.error)
          /\ log[i].coll_before # <<>>
          /\ state.generated_response = PyStr(ESCALATION_MESSAGE)

(***************************************************************************)
(* C3: when ethical_check runs with no error set, needs_escalation on exit  *)
(* is (lexical OR semantic); a lexical hit escalates whatever the           *)
(* classifier does, and a classifier failure leaves the lexical verdict.    *)
(***************************************************************************)
C3_SafetyIsLexicalOrSemantic ==
    \A i \in Runs("ethical_check") :
        ~Truthy(log[i].entry.error) =>
            LET lexical == log[i].entry.user_input \in LexicalInputs IN
            /\ Cardinality(LlmCallsOf(i, "ETHICAL_RISK_ASSESSMENT_PROMPT")) = 1
            /\ \A j \in LlmCallsOf(i, "ETHICAL_RISK_ASSESSMENT_PROMPT") :
                  /\ log[i].exit.needs_escalation =
                        (lexical \/ SemanticHit(log[i].calls[j].out))
                  /\ lexical => log[i].exit.needs_escalation
                  /\ log[i].calls[j].out = Raise =>
                        log[i].exit.needs_escalation = lexical

\* An upper-case keyword escalated although the classifier call failed.
C3_Witness ==
    \E i \in Runs("ethical_check") :
        /\ ~Truthy(log[i].entry.error)
        /\ log[i].entry.user_input = "Feeling HOPELESS today"
        /\ \E j \in LlmCallsOf(i, "ETHICAL_RISK_ASSESSMENT_PROMPT") :
              log[i].calls[j].out = Raise
        /\ log[i].exit.needs_escalation

(***************************************************************************)
(* C4: error is appended, never overwritten: a node entered with an error   *)
(* set leaves an error that still contains the one it was given, so a node  *)
(* that fails adds its message and never replaces or clears the earlier     *)
(* one.  process_input_node assigns its own message over whatever error it  *)
(* was given.                                                               *)
(***************************************************************************)
C4_ErrorAppendedNeverOverwritten ==
    \A i \in DOMAIN log :
        Truthy(log[i].entry.error) =>
            /\ Truthy(log[i].exit.error)
            /\ Contains(log[i].exit.error.s, log[i].entry.error.s)

(***************************************************************************)
(* C5: generate_response entered with an error set returns the fixed        *)
(* apology and calls neither the generation backend nor add_interaction,    *)
(* even when needs_escalation is true; the three branches are tried in the  *)
(* order error, escalation, normal, and exactly one is taken.               *)
(***************************************************************************)
C5_ErrorOutranksEscalation ==
    \A i \in Runs("generate_response") :
        /\ Truthy(log[i].entry.error) =>
              /\ log[i].exit.generated_response = PyStr(ERROR_RESPONSE)
              /\ log[i].calls = <<>>
              /\ log[i].coll_after = log[i].coll_before
              /\ log[i].exit.error = log[i].entry.error
        /\ (~Truthy(log[i].entry.error) /\ log[i].entry.needs_escalation) =>
              /\ log[i].exit.generated_response = PyStr(ESCALATION_MESSAGE)
              /\ log[i].calls = <<>>
        /\ (~Truthy(log[i].entry.error) /\ ~log[i].entry.needs_escalation) =>
              Cardinality(LlmCallsOf(i, "RESPONSE_GENERATION_PROMPT")) = 1

C5_Witness ==
    \E i \in Runs("generate_response") :
        /\ Truthy(log[i].entry.error)
        /\ log[i].entry.needs_escalation
        /\ log[i].exit.generated_response = PyStr(ERROR_RESPONSE)

(***************************************************************************)
(* C6: when the analysis call fails on a turn started without error, the    *)
(* turn ends with an analysis-failure error, no memories, no escalation,    *)
(* and the fixed fallback sentence as the response.                         *)
(***************************************************************************)
AnalysisCallFailed ==
    /\ log # <<>>
    /\ log[1].node = "process_input"
    /\ ~Truthy(log[1].entry.error)
    /\ \E j \in LlmCallsOf(1, "INPUT_ANALYSIS_PROMPT") : log[1].calls[j].out = Raise

C6_AnalysisFailureFallsBack ==
    (pc = "END" /\ AnalysisCallFailed) =>
        /\ state.error = PyStr("An error occurred during input analysis.")
        /\ state.retrieved_memories = PyList(<<>>)
        /\ ~state.needs_escalation
        /\ state.generated_response \in {PyStr(ERROR_RESPONSE), PyStr(TROUBLE_RESPONSE)}

HappyPath ==
    /\ pc = "END"
    /\ EveryCallSucceeded
    /\ \A i \in Runs("process_input") : ~Truthy(log[i].exit.error)
    /\ \A i \in Runs("ethical_check") : ~log[i].exit.needs_escalation

C8_HappyPath ==
    HappyPath =>
        /\ Runs("generate_response") # {}
        /\ \A i \in Runs("generate_response") :
              /\ Cardinality(LlmCallsOf(i, "RESPONSE_GENERATION_PROMPT")) = 1
              /\ \A j \in LlmCallsOf(i, "RESPONSE_GENERATION_PROMPT") :
                    state.generated_response = log[i].calls[j].out
        /\ state.error = PyNone
        /\ Len(collection) = Len(log[1].coll_before) + 2
        /\ SubSeq(collection, 1, Len(log[1].coll_before)) = log[1].coll_before
        /\ LET u == collection[Len(collection) - 1]
               a == collection[Len(collection)]
           IN /\ u.metadata.role = "user"
              /\ a.metadata.role = "ai"
              /\ u.metadata.timestamp = a.metadata.timestamp
              /\ u.metadata.session_id = state.session_id
              /\ a.metadata.session_id = state.session_id
              /\ u.document = "User said: " \o state.user_input
              /\ a.document = "AI responded: " \o state.generated_response.s
              /\ u.id # a.id

C8_Witness ==
    /\ HappyPath
    /\ \E i \in Runs("retrieve_memory") : Len(log[i].exit.retrieved_memories.l) > 0
    /\ state.generated_response = PyStr("Here's my question back to you: what made today hard?")
    /\ Len(collection) = Len(log[1].coll_before) + 2

(***************************************************************************)
(* C9: no node lets an exception escape, whatever the backends return.      *)
(* retrieve_memory_node applies .get to the parsed analysis outside any     *)
(* try, so an analysis that parsed to a non-empty JSON list raises.         *)
(***************************************************************************)
C9_NoStageRaises == \A i \in DOMAIN log : ~log[i].raised

(***************************************************************************)
(* C10: for one history and budgets b1 < b2, the turns included under b1    *)
(* are a suffix of the turns included under b2, and so is the text.         *)
(***************************************************************************)
C10_BudgetMonotone ==
    \A x, y \in DOMAIN fmtCalls :
        (fmtCalls[x].history = fmtCalls[y].history
            /\ fmtCalls[x].max_tokens < fmtCalls[y].max_tokens) =>
            /\ IsSuffix(fmtCalls[x].turns, fmtCalls[y].turns)
            /\ IsSuffix(fmtCalls[x].out, fmtCalls[y].out)

\* A larger budget added an older turn in front of one already included.
C10_Witness ==
    \E x, y \in DOMAIN fmtCalls :
        /\ fmtCalls[x].max_tokens < fmtCalls[y].max_tokens
        /\ Len(fmtCalls[x].turns) = 1
        /\ Len(fmtCalls[y].turns) = 2
        /\ Len(fmtCalls[x].history) = 2

(***************************************************************************)
(* C11: format_conversation_history returns, oldest first, exactly the      *)
(* longest run of most-recent turns whose token counts sum to at most       *)
(* max_tokens: it stops at the first turn that does not fit and takes no    *)
(* older turn after it; the total never exceeds max_tokens; an empty        *)
(* history or max_tokens = 0 gives the empty string.                        *)
(***************************************************************************)
\* Tokens of the k most recent turns of h.
RECURSIVE SuffixTokens(_, _)
SuffixTokens(h, k) ==
    IF k = 0 THEN 0
    ELSE count_tokens(turn_text(h[Len(h) - k + 1])) + SuffixTokens(h, k - 1)

\* The largest k such that the k most recent turns fit in budget b.
LongestFit(h, b) ==
    CHOOSE k \in 0..Len(h) :
        /\ SuffixTokens(h, k) <= b
        /\ \A m \in 0..Len(h) : SuffixTokens(h, m) <= b => m <= k

C11_LongestRecentRun ==
    \A x \in DOMAIN fmtCalls :
        LET h == fmtCalls[x].history
            b == fmtCalls[x].max_tokens
            k == LongestFit(h, b)
        IN /\ fmtCalls[x].turns = [i \in 1..k |-> turn_text(h[Len(h) - k + i])]
           /\ fmtCalls[x].out = join("\n", fmtCalls[x].turns)
           /\ SuffixTokens(h, Len(fmtCalls[x].turns)) <= b
           /\ (h = <<>> \/ b = 0) => fmtCalls[x].out = ""

\* The newest turn did not fit, so nothing was taken, although the older
\* turn alone would have fitted; and a call that took two turns.
C11_Witness ==
    /\ Len(fmtCalls) = 2
    /\ Len(fmtCalls[1].history) = 2
    /\ fmtCalls[1].max_tokens > 0
    /\ fmtCalls[1].turns = <<>>
    /\ count_tokens(turn_text(fmtCalls[1].history[1])) <= fmtCalls[1].max_tokens
    /\ Len(fmtCalls[2].turns) = 2
    /\ fmtCalls[2].turns[1] # fmtCalls[2].turns[2]

(***************************************************************************)
(* C12: when embedding the query text gives None (blank text, or encode     *)
(* failed), retrieve_relevant_memories returns [] without querying the      *)
(* collection and without raising, and retrieve_memory leaves error unset   *)
(* and retrieved_memories = [].                                             *)
(***************************************************************************)
\* The query text run i of retrieve_memory handed to retrieve_relevant_memories.
QueryTextOf(i) ==
    LET j == CHOOSE j \in LlmCallsOf(i, "MEMORY_RETRIEVAL_QUERY_PROMPT") : TRUE
    IN IF log[i].calls[j].out = Raise
       THEN fallback_query(log[i].entry.input_analysis, log[i].entry.user_input)
       ELSE log[i].calls[j].out.s

\* Run i reached get_embedding, the model was available, and the embedding
\* came back None.
EmbeddingWasNone(i) ==
    /\ LlmCallsOf(i, "MEMORY_RETRIEVAL_QUERY_PROMPT") # {}
    /\ \A j \in CallsOf(i, "SentenceTransformer") : log[i].calls[j].out # Raise
    /\ \/ strip(QueryTextOf(i)) = ""
       \/ \E j \in CallsOf(i, "encode") : log[i].calls[j].out = Raise

C12_RetrievalGracefulEmpty ==
    \A i \in Runs("retrieve_memory") :
        EmbeddingWasNone(i) =>
            /\ ~log[i].raised
            /\ CallsOf(i, "collection.query") = {}
            /\ CallsOf(i, "PersistentClient") = {}
            /\ log[i].exit.retrieved_memories = PyList(<<>>)
            /\ log[i].exit.error = PyNone
            /\ log[i].coll_after = log[i].coll_before

\* encode failed on a real query text while the collection held records.
C12_Witness ==
    \E i \in Runs("retrieve_memory") :
        /\ EmbeddingWasNone(i)
        /\ strip(QueryTextOf(i)) # ""
        /\ log[i].coll_before # <<>>
        /\ log[i].exit.retrieved_memories = PyList(<<>>)
        /\ log[i].exit.error = PyNone

\* The generated query was blank: no encode call at all.
C12_WitnessBlank ==
    \E i \in Runs("retrieve_memory") :
        /\ EmbeddingWasNone(i)
        /\ strip(QueryTextOf(i)) = ""
        /\ CallsOf(i, "encode") = {}

(***************************************************************************)
(* C13: whatever order the collection returns its results in,               *)
(* retrieve_relevant_memories returns one {document, metadata, distance}    *)
(* record per result, sorted ascending by distance; so retrieved_memories   *)
(* in the state is always most-relevant-first.                              *)
(***************************************************************************)
AscendingByDistance(l) ==
    \A a, b \in DOMAIN l : a < b => l[a].distance <= l[b].distance

\* How many times record r occurs in the list l.
Occurrences(l, r) == Cardinality({a \in DOMAIN l : l[a] = r})

C13_SortedByDistance ==
    /\ state.retrieved_memories.t = "list" =>
          AscendingByDistance(state.retrieved_memories.l)
    /\ \A i \in Runs("retrieve_memory") :
          \A j \in CallsOf(i, "collection.query") :
              log[i].calls[j].out # Raise =>
                  LET res == log[i].calls[j].results
                      got == log[i].exit.retrieved_memories.l
                  IN /\ Len(got) = Len(res.documents)
                     /\ AscendingByDistance(got)
                     /\ \A a \in DOMAIN res.documents :
                           LET r == [document |-> res.documents[a],
                                     metadata |-> res.metadatas[a],
                                     distance |-> res.distances[a]]
                           IN Occurrences(got, r) = Occurrences(zip_results(res), r)

\* The collection returned the farther record first and it came out last.
C13_Witness ==
    \E i \in Runs("retrieve_memory") :
        \E j \in CallsOf(i, "collection.query") :
            /\ log[i].calls[j].out # Raise
            /\ Len(log[i].calls[j].results.distances) = 2
            /\ log[i].calls[j].results.distances[1] > log[i].calls[j].results.distances[2]
            /\ log[i].exit.retrieved_memories.l[1].document = log[i].calls[j].results.documents[2]
            /\ state.retrieved_memories = log[i].exit.retrieved_memories

(***************************************************************************)
(* C14: in add_interaction the user side and the AI side are attempted      *)
(* independently: whatever fails on one side (embedding, storing, getting   *)
(* the embedding model or the collection), the other side is still          *)
(* attempted, and add_interaction never raises.  get_embedding_model and    *)
(* get_chroma_collection re-raise, and add_interaction has no try: a        *)
(* failure to load the model on the user side ends the call.                *)
(***************************************************************************)
MemCallsOf(fn) == {x \in DOMAIN memCalls : memCalls[x].fn = fn}

\* The calls of record x made through api.
MemApiCalls(x, api) == {j \in DOMAIN memCalls[x].calls : memCalls[x].calls[j].api = api}

\* The AI side of add_interaction call x got as far as asking for the
\* embedding of its document (a model load of its own, or the encode call).
AiSideAttempted(x) ==
    \/ \E j \in MemApiCalls(x, "encode") :
          memCalls[x].calls[j].text = "AI responded: " \o memCalls[x].args.ai_response
    \/ Cardinality(MemApiCalls(x, "SentenceTransformer")) = 2

C14_SidesIndependent ==
    \A x \in MemCallsOf("add_interaction") :
        /\ memCalls[x].ret # Raise
        /\ AiSideAttempted(x)

(***************************************************************************)
(* C15: get_embedding never raises: for every text and every outcome of     *)
(* the embedding backend, failure to load the model included, it returns    *)
(* a vector or None, and None on blank text or backend failure.             *)
(* get_embedding calls get_embedding_model outside its try, and that        *)
(* re-raises a load failure.                                                *)
(***************************************************************************)
C15_GetEmbeddingNeverRaises ==
    \A x \in MemCallsOf("get_embedding") :
        /\ memCalls[x].ret # Raise
        /\ memCalls[x].ret = PyNone \/ memCalls[x].ret.t = "vec"
        /\ strip(memCalls[x].args.text) = "" => memCalls[x].ret = PyNone
        /\ (\E j \in DOMAIN memCalls[x].calls : memCalls[x].calls[j].out = Raise)
              => memCalls[x].ret = PyNone

(***************************************************************************)
(* C16: when the generation call succeeds and saving the turn fails (an     *)
(* embedding or collection.add failure inside add_interaction), the final   *)
(* response is still the backend's text and the final error carries a       *)
(* memory-persistence note.  get_embedding and add_memory absorb these      *)
(* failures, add_interaction returns normally, and no note is written.      *)
(***************************************************************************)
SAVE_NOTE == "Failed to save interaction to memory."

\* Run i of generate_response got its text and then failed to save it.
PersistFailed(i) ==
    /\ \E j \in LlmCallsOf(i, "RESPONSE_GENERATION_PROMPT") : log[i].calls[j].out # Raise
    /\ \E j \in DOMAIN log[i].calls :
          /\ log[i].calls[j].api \in {"SentenceTransformer", "encode", "collection.add"}
          /\ log[i].calls[j].out = Raise

C16_PersistFailureNoted ==
    \A i \in Runs("generate_response") :
        (pc = "END" /\ PersistFailed(i)) =>
            /\ \A j \in LlmCallsOf(i, "RESPONSE_GENERATION_PROMPT") :
                  state.generated_response = log[i].calls[j].out
            /\ Contains(OrEmpty(state.error), SAVE_NOTE)

(***************************************************************************)
(* C17: when generate_response takes the normal branch and the generation   *)
(* call fails, error gains the generation-failure note, the response is the *)
(* fixed "trouble" sentence, add_interaction is not called and the          *)
(* collection is as the turn found it.                                      *)
(***************************************************************************)
GenerationFailed(i) ==
    \E j \in LlmCallsOf(i, "RESPONSE_GENERATION_PROMPT") : log[i].calls[j].out = Raise

C17_GenerationFailureFallsBack ==
    \A i \in Runs("generate_response") :
        GenerationFailed(i) =>
            /\ log[i].exit.error =
                  PyStr(OrEmpty(log[i].entry.error) \o " Failed to generate response.")
            /\ log[i].exit.generated_response = PyStr(TROUBLE_RESPONSE)
            /\ CallsOf(i, "add_interaction") = {}
            /\ Len(log[i].calls) = 1
            /\ log[i].coll_after = log[i].coll_before
            /\ collection = log[1].coll_before

C17_Witness ==
    /\ pc = "END"
    /\ \E i \in Runs("generate_response") :
          /\ GenerationFailed(i)
          /\ ~log[i].entry.needs_escalation
          /\ log[i].coll_before # <<>>
    /\ state.generated_response = PyStr(TROUBLE_RESPONSE)
    /\ state.error = PyStr(" Failed to generate response.")

(***************************************************************************)
(* C18: every backend failure inside a turn leaves a note in error; in      *)
(* particular a failed collection.query during retrieval gives              *)
(* retrieved_memories = [] together with a non-empty error.  query_memories *)
(* catches the failure and returns the empty structure, so nothing reaches  *)
(* the node and error stays None.                                           *)
(***************************************************************************)
C18_EveryFailureNoted ==
    \A i \in DOMAIN log :
        /\ (\E j \in DOMAIN log[i].calls :
               log[i].calls[j].api # "add_interaction" /\ log[i].calls[j].out = Raise)
              => Truthy(log[i].exit.error)
        /\ (\E j \in CallsOf(i, "collection.query") : log[i].calls[j].out = Raise)
              => /\ log[i].exit.retrieved_memories = PyList(<<>>)
                 /\ Truthy(log[i].exit.error)

(***************************************************************************)
(* C19: process_input sets error and an analysis carrying an error tag      *)
(* whenever the backend fails or its output does not parse into an object   *)
(* with the five fields; an analysis is stored without an error tag only    *)
(* when all five fields are present.  The node stores whatever json.loads   *)
(* returns.                                                                 *)
(***************************************************************************)
HasFiveFields(a) == a.t = "dict" /\ AnalysisFields \subseteq DOMAIN a.d

HasErrorTag(a) == a.t = "dict" /\ "error" \in DOMAIN a.d

C19_AnalysisValidated ==
    \A i \in Runs("process_input") :
        LET a == log[i].exit.input_analysis IN
        \/ HasFiveFields(a) /\ ~HasErrorTag(a) /\ log[i].exit.error = log[i].entry.error
        \/ HasErrorTag(a) /\ Truthy(log[i].exit.error)

(***************************************************************************)
(* C20: the collection handle is a process-wide singleton: however the      *)
(* first calls of get_chroma_collection interleave, the client and the      *)
(* collection are created at most once and every caller is returned the     *)
(* same handle.  The check of _collection and the store to it are separate  *)
(* steps with no lock between them.                                         *)
(***************************************************************************)
C20_SingletonHandle ==
    /\ callers.clients <= 1
    /\ callers.collections <= 1
    /\ \A t, u \in Threads :
          (callers.pc[t] = "done" /\ callers.pc[u] = "done") =>
              callers.ret[t] = callers.ret[u]

(***************************************************************************)
(* C22: once error is set in a turn no further backend call is made:        *)
(* retrieve_memory entered with error set (or an analysis error tag) makes  *)
(* no call and sets retrieved_memories = []; ethical_check entered with     *)
(* error set makes no call and sets needs_escalation = false; and no        *)
(* generation or persistence call follows.                                  *)
(***************************************************************************)
C22_NoCallsAfterError ==
    /\ \A i, k \in DOMAIN log :
          (i < k /\ Truthy(log[i].exit.error)) =>
              /\ log[k].calls = <<>>
              /\ log[k].node # "generate_response"
              /\ log[k].coll_after = log[k].coll_before
    /\ \A i \in Runs("retrieve_memory") :
          (Truthy(log[i].entry.error) \/ HasErrorTag(log[i].entry.input_analysis)) =>
              /\ log[i].calls = <<>>
              /\ log[i].exit.retrieved_memories = PyList(<<>>)
    /\ \A i \in Runs("ethical_check") :
          Truthy(log[i].entry.error) =>
              /\ log[i].calls = <<>>
              /\ ~log[i].exit.needs_escalation
    /\ \A i \in DOMAIN log :
          (~Truthy(log[i].entry.error) /\ Truthy(log[i].exit.error) /\ log[i].calls # <<>>) =>
              \* the call that set error is the last call of the run
              \/ log[i].calls[Len(log[i].calls)].out = Raise
              \/ Len(log[i].calls) = 1

\* The analysis failed on an input holding a risk keyword, with records in
\* the collection: retrieval and the safety check were both skipped.
C22_Witness ==
    /\ pc = "END"
    /\ Len(log) = 3
    /\ Truthy(log[1].exit.error)
    /\ state.user_input \in LexicalInputs
    /\ collection # <<>>
    /\ log[2].calls = <<>> /\ log[3].calls = <<>>
    /\ state.retrieved_memories = PyList(<<>>)
    /\ ~state.needs_escalation

(***************************************************************************)
(* C23: in one turn the stages run in the order analysis, retrieval,        *)
(* safety, generation, each at most once; each backend call is made at most *)
(* once (no retry); and the turn always reaches the terminal state.  A turn *)
(* whose analysis parsed to a JSON list stops in retrieve_memory with an    *)
(* exception and never reaches END.                                         *)
(***************************************************************************)
NodeOrder == <<"process_input", "retrieve_memory", "ethical_check", "generate_response">>

StagesInOrder ==
    /\ Len(log) <= Len(NodeOrder)
    /\ \A i \in DOMAIN log : log[i].node = NodeOrder[i]
    /\ pc \in Nodes => pc = NodeOrder[Len(log) + 1]

\* No call of a run repeats an earlier call of the turn.
NoRetry ==
    \A i, k \in DOMAIN log : \A j \in DOMAIN log[i].calls, m \in DOMAIN log[k].calls :
        (<<i, j>> # <<k, m>> /\ log[i].calls[j].api = log[k].calls[m].api) =>
            CASE log[i].calls[j].api = "llm" -> log[i].calls[j].prompt # log[k].calls[m].prompt
              [] log[i].calls[j].api = "encode" -> log[i].calls[j].text # log[k].calls[m].text
              [] log[i].calls[j].api = "collection.add" -> log[i].calls[j].id # log[k].calls[m].id
              [] OTHER -> FALSE

C23_OrderedOnceAndTerminates ==
    /\ StagesInOrder
    /\ NoRetry
    /\ pc # "raised"

(***************************************************************************)
(* C24: when the query-generation call fails, retrieve_memory builds the    *)
(* query from the template "Topics: ..., Emotion: .... User input: ...",    *)
(* still retrieves with it, and sets no error on account of that failure.   *)
(***************************************************************************)
QueryGenFailed(i) ==
    \E j \in LlmCallsOf(i, "MEMORY_RETRIEVAL_QUERY_PROMPT") : log[i].calls[j].out = Raise

\* The templated query as Python renders it for the analyses of the model.
TemplatedQuery(analysis, user_input) ==
    (IF analysis = FullAnalysis THEN "Topics: ['work'], Emotion: sadness"
                                ELSE "Topics: [], Emotion: sadness")
        \o ". User input: " \o user_input

ModelLoadFailed(i) ==
    \E j \in CallsOf(i, "SentenceTransformer") : log[i].calls[j].out = Raise

C24_QueryGenFallback ==
    \A i \in Runs("retrieve_memory") :
        QueryGenFailed(i) =>
            LET q == TemplatedQuery(log[i].entry.input_analysis, log[i].entry.user_input) IN
            /\ log[i].entry.input_analysis \in {FullAnalysis, PartialAnalysis}
            /\ ~log[i].raised
            /\ \A j \in CallsOf(i, "encode") : log[i].calls[j].text = q
            /\ ~ModelLoadFailed(i) =>
                  /\ Cardinality(CallsOf(i, "encode")) = 1
                  /\ log[i].exit.error = PyNone
                  /\ \A j \in CallsOf(i, "encode") :
                        log[i].calls[j].out # Raise =>
                            Cardinality(CallsOf(i, "collection.query")) = 1
            /\ Truthy(log[i].exit.error) => ModelLoadFailed(i)

\* The fallback query found a record.
C24_Witness ==
    \E i \in Runs("retrieve_memory") :
        /\ QueryGenFailed(i)
        /\ \E j \in CallsOf(i, "encode") :
              log[i].calls[j].text =
                  "Topics: ['work'], Emotion: sadness. User input: had a rough day at work"
        /\ Len(log[i].exit.retrieved_memories.l) > 0
        /\ log[i].exit.error = PyNone

(***************************************************************************)
(* C27: no node changes session_id, user_input or conversation_history:     *)
(* whatever the backends do, these fields of the state are throughout, and  *)
(* at the end of the turn, what they were when the turn began.              *)
(***************************************************************************)
FrameFields == {"session_id", "user_input", "conversation_history"}

C27_InputsUnchanged ==
    /\ \A i \in DOMAIN log : \A f \in FrameFields : log[i].exit[f] = log[i].entry[f]
    /\ log # <<>> => \A f \in FrameFields : state[f] = log[1].entry[f]

\* A full turn on a mixed-case input with a history, answered by the backend.
C27_Witness ==
    /\ pc = "END"
    /\ Len(log) = 4
    /\ state.user_input = "Feeling HOPELESS today"
    /\ state.conversation_history # <<>>
    /\ state.conversation_history = log[1].entry.conversation_history
    /\ state.session_id = SESSION

(***************************************************************************)
(* C25: retrieval does not depend on the session identifier: over the same  *)
(* collection and for the same query text, retrieve_relevant_memories       *)
(* returns the same records whichever session_id it is given (the store is  *)
(* queried with no filter), so records saved by a turn of session-A can be  *)
(* returned to a turn of session-B.                                         *)
(***************************************************************************)
C25_SessionIndependent ==
    /\ \A x \in MemCallsOf("retrieve_relevant_memories") :
          \A j \in MemApiCalls(x, "collection.query") :
              memCalls[x].calls[j].where = PyNone
    /\ \A x, y \in MemCallsOf("retrieve_relevant_memories") :
          (/\ memCalls[x].args.query_text = memCalls[y].args.query_text
           /\ memCalls[x].coll_before = memCalls[y].coll_before
           /\ memCalls[x].outcomes = memCalls[y].outcomes)
              => memCalls[x].ret = memCalls[y].ret

\* Session-A and then session-B asked the same question with the same answer
\* from the store, and session-B got a record session-A had saved.
C25_Witness ==
    /\ Len(memCalls) = 2
    /\ memCalls[1].args.session_id = "session-A"
    /\ memCalls[2].args.session_id = "session-B"
    /\ memCalls[1].outcomes = memCalls[2].outcomes
    /\ memCalls[2].ret # Raise
    /\ Len(memCalls[2].ret.l) = 2
    /\ memCalls[2].ret.l[1].metadata.session_id = "session-A"
    /\ memCalls[2].ret = memCalls[1].ret

(***************************************************************************)
(* C21: the memory store is append-only: no step of a turn changes or       *)
(* removes a record already stored, every insert is made under an id no     *)
(* stored record has (and all stored ids stay below the next id to be       *)
(* drawn, so this carries over to the turns that follow), a turn adds at    *)
(* most two records, and a turn that ended through the error route, the     *)
(* escalation branch or a failed generation call added none.                *)
(***************************************************************************)
IsPrefix(a, b) == Len(a) <= Len(b) /\ SubSeq(b, 1, Len(a)) = a

\* The finished turn went to the end on an error set before generation, or
\* took the escalation branch, or its generation call failed.
EndedWithoutReply ==
    \/ \E i \in Runs("ethical_check") : Truthy(log[i].exit.error)
    \/ \E i \in Runs("generate_response") :
          \/ Truthy(log[i].entry.error)
          \/ log[i].entry.needs_escalation
          \/ GenerationFailed(i)

C26_HistoryNotCorrupted ==
    /\ \A k \in DOMAIN chat.conversation_history :
          /\ chat.conversation_history[k].role = (IF k % 2 = 1 THEN "user" ELSE "ai")
          /\ chat.conversation_history[k].content.t = "str"
    /\ (pc = "prompt" /\ log # <<>>) =>
          /\ \/ chat.conversation_history = state.conversation_history
             \/ chat.conversation_history = state.conversation_history \o
                   <<[role |-> "user", content |-> PyStr(state.user_input)],
                     [role |-> "ai", content |-> state.generated_response]>>
          /\ (\E i \in Runs("ethical_check") : Truthy(log[i].exit.error))
                => chat.conversation_history = state.conversation_history

====
